---- MODULE Spec2Model ----
(***************************************************************************)
(* Browser Agent Service (backend/services/browser-agent/main.py).         *)
(*                                                                         *)
(* A FastAPI process with three POST handlers, /browse, /scroll-app and    *)
(* /search-document.  Each handler is a coroutine: it runs without         *)
(* interruption from its entry to `await agent.run()`, is suspended there  *)
(* while other handlers run, and runs without interruption from the end of *)
(* the agent run to its return.  The LLM client, the agent and the         *)
(* interpreter's string hash are external: their outcomes are inputs.      *)
(***************************************************************************)
EXTENDS Integers, Sequences, FiniteSets, TLC

\* Requests the process receives in one run; each has a slot of its own.
NumReqs == 2
Reqs == 1..NumReqs

----------------------------------------------------------------------------
(* Values *)

\* Optional[str]: None, or a string.
None == <<>>
Some(s) == <<s>>

\* Python truthiness of an Optional[str]: None and "" are falsy.
Truthy(opt) == opt # None /\ opt[1] # ""

Routes == {"browse", "scroll-app", "search-document"}

\* Request bodies: the values each field is drawn from.
Tasks == {"", "foo"}
AppUrls == {None, Some(""), Some("http://a")}
DefaultHeadless == TRUE
DefaultMaxTurns == 10
HeadlessInputs == {DefaultHeadless, FALSE}
MaxTurnsInputs == {DefaultMaxTurns, 0}

BrowserTaskRequest(task, app_url, headless, max_turns) ==
    [task |-> task, app_url |-> app_url, headless |-> headless,
     max_turns |-> max_turns]

Requests ==
    { BrowserTaskRequest(t, u, h, m) :
        t \in Tasks, u \in AppUrls, h \in HeadlessInputs, m \in MaxTurnsInputs }

BrowserTaskResponse(success, result, error, task_id) ==
    [success |-> success, result |-> result, error |-> error,
     task_id |-> task_id]

NoRequest == [none |-> "request"]
NoResponse == [none |-> "response"]
NoObject == [none |-> "object"]
NoOutcome == [none |-> "outcome"]

\* Exceptions the external library raises.  CancelledError derives from
\* BaseException, not from Exception; HTTPException derives from Exception.
LibraryErrors ==
    { [cls |-> "Exception", msg |-> "boom"],
      [cls |-> "HTTPException", msg |-> "502: upstream"] }
CancelledError == [cls |-> "CancelledError", msg |-> ""]

\* What agent.run() returns: an object whose str() is its text.
AgentResults == { [text |-> "done"], [text |-> ""] }

Ok == [kind |-> "ok"]
Raise(e) == [kind |-> "raise", exc |-> e]
Return(v) == [kind |-> "return", value |-> v]

\* Outcomes of a constructor call and of the awaited agent run.
CtorOutcomes == {Ok} \cup { Raise(e) : e \in LibraryErrors }
RunOutcomes ==
    { Return(v) : v \in AgentResults }
      \cup { Raise(e) : e \in LibraryErrors \cup {CancelledError} }

\* A variant of StrExc: the exception's class name instead of str(e).
StrExcClassName(e) == e.cls

\* str(result), str(e)
StrResult(v) == v.text
StrExc(e) == e.msg

\* A variant of IsException: a clause that lets HTTPException through.
IsExceptionButHttp(e) == e.cls = "Exception"

\* `except Exception`: which raised objects the clause catches.
IsException(e) == e.cls \in {"Exception", "HTTPException"}

\* Strings the handlers hash, and the values the interpreter's hash takes.
HashedStrings == Tasks \cup { u[1] : u \in AppUrls \ {None} }
HashValues == {-7, 7}

VARIABLES
    hash,      \* the process's str hash (fixed at interpreter start)
    pc,        \* per request: idle, awaiting, responded, rejected, aborted
    route,     \* per request: the route it came in on
    req,       \* per request: the parsed BrowserTaskRequest
    llm,       \* per request: the handler's local `llm`
    agent,     \* per request: the handler's local `agent`
    outcome,   \* per request: how the external calls ended
    resp,      \* per request: the BrowserTaskResponse returned
    status,    \* per request: HTTP status answered (0: none yet)
    sent,      \* per request: number of BrowserTaskResponse bodies returned
    steps      \* per request: the handler's steps, in execution order

vars == <<hash, pc, route, req, llm, agent, outcome, resp, status, sent, steps>>

----------------------------------------------------------------------------
(* Collaborators and pure helpers *)

\* hash(s) for a str.
PyHash(s) == hash[s]

\* hash(x) for an Optional[str]; hash(None) is a constant of the
\* interpreter, whatever the str hash is (23 stands for it).
PyHashOpt(opt) == IF opt = None THEN 23 ELSE PyHash(opt[1])

\* f"{x}" for an Optional[str]: None formats as "None".
Format(opt) == IF opt = None THEN "None" ELSE opt[1]

\* A variant of ChatOpenAI: one client built once and shared by all requests.
ChatOpenAIShared(r) == [cls |-> "ChatOpenAI", model |-> "gpt-4o-mini", id |-> 1]

\* ChatOpenAI(model="gpt-4o-mini", api_key=...): a new client object.
ChatOpenAI(r) == [cls |-> "ChatOpenAI", model |-> "gpt-4o-mini", id |-> r]

\* A variant of Agent: max_turns left at its default.
AgentDefaultTurns(task, client, headless, max_turns) ==
    [task |-> task, llm |-> client, headless |-> headless,
     max_turns |-> DefaultMaxTurns]

\* Agent(task=..., llm=..., headless=..., max_turns=...): a new agent object.
Agent(task, client, headless, max_turns) ==
    [task |-> task, llm |-> client, headless |-> headless,
     max_turns |-> max_turns]

\* A variant of BrowseTask: the task wrapped in a template.
BrowseTaskTemplated(request) == "Task: " \o request.task

\* /browse: task=request.task
BrowseTask(request) == request.task

\* A variant of ScrollTask: the caller's task appended to the instruction.
ScrollTaskWithTask(request) ==
    "\n        Navigate to " \o Format(request.app_url) \o " and perform: " \o request.task

\* /scroll-app: the scroll_task f-string
ScrollTask(request) ==
    "\n        Navigate to " \o Format(request.app_url) \o " and perform a comprehensive exploration:\n        \n        1. First, take a screenshot to see the initial state\n        2. Scroll through the entire application systematically:\n           - Scroll down page by page\n           - Look for navigation menus, buttons, and interactive elements\n           - Click on different sections/links to explore different pages\n           - Document all the pages and features you discover\n        3. For each page/section you visit:\n           - Take a screenshot\n           - Extract the page content and structure\n           - Note any forms, buttons, or interactive elements\n           - Document the URL and page title\n        4. Create a comprehensive summary of:\n           - All pages visited\n           - Key features and functionality discovered\n           - Navigation structure\n           - Interactive elements found\n           - Any forms or user inputs available\n        \n        Be thorough and systematic in your exploration. Take your time to scroll through everything.\n        "

\* /search-document: the search_task f-string
SearchTask(request) ==
    "\n        Navigate to " \o Format(request.app_url) \o " and search for the following: \"" \o request.task \o "\"\n        \n        Perform a thorough search by:\n        1. Using any search functionality on the site\n        2. Browsing through different sections and pages\n        3. Looking for relevant content, documentation, or information\n        4. Extracting and summarizing any relevant findings\n        5. Providing specific URLs where the information was found\n        \n        Focus on finding comprehensive information related to: " \o request.task \o "\n        "

\* A variant of BrowseTaskIdErr: the except branch hashing app_url.
BrowseTaskIdErrOfUrl(request) == "task_" \o ToString(PyHashOpt(request.app_url))

\* task_id of each route, on the success branch and on the except branch.
BrowseTaskIdOk(request) == "task_" \o ToString(PyHash(request.task))
BrowseTaskIdErr(request) == "task_" \o ToString(PyHash(request.task))
ScrollTaskIdOk(request) == "scroll_" \o ToString(PyHashOpt(request.app_url))
ScrollTaskIdErr(request) == "scroll_" \o ToString(PyHashOpt(request.app_url))
SearchTaskIdOk(request) == "search_" \o ToString(PyHash(request.task))
SearchTaskIdErr(request) == "search_" \o ToString(PyHash(request.task))

\* A variant of AppUrlRequired: a test for the empty string only.
AppUrlRequiredEmptyOnly(request) == request.app_url = Some("")

\* `if not request.app_url: raise HTTPException(status_code=400, ...)`
AppUrlRequired(request) == ~Truthy(request.app_url)

----------------------------------------------------------------------------
(* A handler's frame: what one step of a handler leaves for its request *)

Frame(p, l, a, o, rs, st, n, s) ==
    [pc |-> p, llm |-> l, agent |-> a, outcome |-> o, resp |-> rs,
     status |-> st, sent |-> n, steps |-> s]

\* raise HTTPException(status_code=400, ...) before the try block.
Reject(done) ==
    Frame("rejected", NoObject, NoObject, NoOutcome, NoResponse, 400, 0, done)

\* return BrowserTaskResponse(success=True, result=str(result), task_id=...)
ReturnSuccess(client, ag, o, task_id, done) ==
    Frame("responded", client, ag, o,
          BrowserTaskResponse(TRUE, StrResult(o.value), None, task_id),
          200, 1, done \o <<"respond">>)

\* An exception leaves the handler: the server run by uvicorn.run(app, ...)
\* answers the request with HTTP 500 and no BrowserTaskResponse.
Propagate(client, ag, o, done) ==
    Frame("aborted", client, ag, o, NoResponse, 500, 0, done)

\* A variant of Except: the clause re-raises instead of returning.
ExceptReraise(client, ag, o, task_id, done) == Propagate(client, ag, o, done)

\* An exception e raised inside the try block: `except Exception as e`
\* returns the failure envelope; anything else leaves the handler.
Except(client, ag, o, task_id, done) ==
    IF IsException(o.exc)
    THEN Frame("responded", client, ag, o,
               BrowserTaskResponse(FALSE, "", Some(StrExc(o.exc)), task_id),
               200, 1, done \o <<"respond">>)
    ELSE Propagate(client, ag, o, done)

\* The try block from its first statement to `await agent.run()`.
TryEnter(r, request, prompt, tidErr, done, llmOut, agentOut) ==
    IF llmOut.kind = "raise"
    THEN Except(NoObject, NoObject, [llmOut EXCEPT !.kind = "llm-raise"],
                tidErr, done \o <<"llm">>)
    ELSE LET client == ChatOpenAI(r) IN
         IF agentOut.kind = "raise"
         THEN Except(client, NoObject, [agentOut EXCEPT !.kind = "agent-raise"],
                     tidErr, done \o <<"llm", "agent">>)
         ELSE Frame("awaiting", client,
                    Agent(prompt, client, request.headless, request.max_turns),
                    NoOutcome, NoResponse, 0, 0,
                    done \o <<"llm", "agent", "run">>)

\* The try block from the end of `await agent.run()` to the return.
TryResume(r, tidOk, tidErr, runOut) ==
    IF runOut.kind = "return"
    THEN ReturnSuccess(llm[r], agent[r], runOut, tidOk, steps[r])
    ELSE Except(llm[r], agent[r], runOut, tidErr, steps[r])

Commit(r, rt, request, f) ==
    /\ pc' = [pc EXCEPT ![r] = f.pc]
    /\ route' = [route EXCEPT ![r] = rt]
    /\ req' = [req EXCEPT ![r] = request]
    /\ llm' = [llm EXCEPT ![r] = f.llm]
    /\ agent' = [agent EXCEPT ![r] = f.agent]
    /\ outcome' = [outcome EXCEPT ![r] = f.outcome]
    /\ resp' = [resp EXCEPT ![r] = f.resp]
    /\ status' = [status EXCEPT ![r] = f.status]
    /\ sent' = [sent EXCEPT ![r] = f.sent]
    /\ steps' = [steps EXCEPT ![r] = f.steps]
    /\ UNCHANGED hash

----------------------------------------------------------------------------
(* The handlers *)

Init ==
    /\ hash \in { h \in [HashedStrings -> HashValues \cup {0}] :
                    \A s \in HashedStrings : (h[s] = 0) <=> (s = "") }
    /\ pc = [r \in Reqs |-> "idle"]
    /\ route = [r \in Reqs |-> "none"]
    /\ req = [r \in Reqs |-> NoRequest]
    /\ llm = [r \in Reqs |-> NoObject]
    /\ agent = [r \in Reqs |-> NoObject]
    /\ outcome = [r \in Reqs |-> NoOutcome]
    /\ resp = [r \in Reqs |-> NoResponse]
    /\ status = [r \in Reqs |-> 0]
    /\ sent = [r \in Reqs |-> 0]
    /\ steps = [r \in Reqs |-> <<>>]

\* POST /browse, from entry to the await (or to the return, if a
\* constructor raises).
browse_web(r) ==
    /\ pc[r] = "idle"
    /\ \E request \in Requests, llmOut \in CtorOutcomes, agentOut \in CtorOutcomes :
         Commit(r, "browse", request,
                TryEnter(r, request, BrowseTask(request),
                         BrowseTaskIdErr(request), <<>>, llmOut, agentOut))

\* POST /scroll-app, from entry to the await.
scroll_through_app(r) ==
    /\ pc[r] = "idle"
    /\ \E request \in Requests, llmOut \in CtorOutcomes, agentOut \in CtorOutcomes :
         Commit(r, "scroll-app", request,
                IF AppUrlRequired(request)
                THEN Reject(<<"validate">>)
                ELSE TryEnter(r, request, ScrollTask(request),
                              ScrollTaskIdErr(request), <<"validate">>,
                              llmOut, agentOut))

\* POST /search-document, from entry to the await.
search_document(r) ==
    /\ pc[r] = "idle"
    /\ \E request \in Requests, llmOut \in CtorOutcomes, agentOut \in CtorOutcomes :
         Commit(r, "search-document", request,
                IF AppUrlRequired(request)
                THEN Reject(<<"validate">>)
                ELSE TryEnter(r, request, SearchTask(request),
                              SearchTaskIdErr(request), <<"validate">>,
                              llmOut, agentOut))

\* The awaited agent.run() of request r ends and its handler resumes.
browse_web_resume(r) ==
    /\ pc[r] = "awaiting" /\ route[r] = "browse"
    /\ \E runOut \in RunOutcomes :
         Commit(r, route[r], req[r],
                TryResume(r, BrowseTaskIdOk(req[r]), BrowseTaskIdErr(req[r]), runOut))

scroll_through_app_resume(r) ==
    /\ pc[r] = "awaiting" /\ route[r] = "scroll-app"
    /\ \E runOut \in RunOutcomes :
         Commit(r, route[r], req[r],
                TryResume(r, ScrollTaskIdOk(req[r]), ScrollTaskIdErr(req[r]), runOut))

search_document_resume(r) ==
    /\ pc[r] = "awaiting" /\ route[r] = "search-document"
    /\ \E runOut \in RunOutcomes :
         Commit(r, route[r], req[r],
                TryResume(r, SearchTaskIdOk(req[r]), SearchTaskIdErr(req[r]), runOut))

Resume(r) ==
    \/ browse_web_resume(r)
    \/ scroll_through_app_resume(r)
    \/ search_document_resume(r)

Next ==
    \E r \in Reqs :
        \/ browse_web(r)
        \/ scroll_through_app(r)
        \/ search_document(r)
        \/ browse_web_resume(r)
        \/ scroll_through_app_resume(r)
        \/ search_document_resume(r)

Spec == Init /\ [][Next]_vars

\* The agent run of every awaiting request eventually ends.
LiveSpec == Spec /\ \A r \in Reqs : WF_vars(Resume(r))

----------------------------------------------------------------------------
(* Helpers of the properties *)

Received(r) == pc[r] # "idle"
Finished(r) == pc[r] \in {"responded", "rejected", "aborted"}
HasAgent(r) == agent[r] # NoObject
Did(r, step) == \E i \in 1..Len(steps[r]) : steps[r][i] = step

\* sub occurs in s as a contiguous substring.
Contains(s, sub) ==
    \E i \in 1..(Len(s) - Len(sub) + 1) : SubSeq(s, i, i + Len(sub) - 1) = sub

\* The route prefix and the hashed input string of a task_id.
RoutePrefix(rt) ==
    CASE rt = "browse" -> "task"
      [] rt = "scroll-app" -> "scroll"
      [] rt = "search-document" -> "search"
HashedInput(rt, request) ==
    IF rt = "scroll-app" THEN request.app_url[1] ELSE request.task

\* The position of a step in the order validate, construct the LLM client,
\* construct the agent, run, respond.
StepOrder(step) ==
    CASE step = "validate" -> 1
      [] step = "llm" -> 2
      [] step = "agent" -> 3
      [] step = "run" -> 4
      [] step = "respond" -> 5

----------------------------------------------------------------------------
(* C1 *)

\* C1: a request to /scroll-app or /search-document whose app_url is missing
\* ends with HTTP 400, and for it no LLM client and no agent is constructed
\* or run: the handler did nothing but validate.
C1_MissingAppUrlRejected ==
    \A r \in Reqs :
        (Received(r) /\ route[r] \in {"scroll-app", "search-document"}
           /\ req[r].app_url = None)
        => /\ pc[r] = "rejected"
           /\ status[r] = 400
           /\ llm[r] = NoObject
           /\ agent[r] = NoObject
           /\ outcome[r] = NoOutcome
           /\ steps[r] = <<"validate">>
           /\ sent[r] = 0

C1_Witness ==
    \E r1, r2 \in Reqs :
        /\ route[r1] = "scroll-app" /\ req[r1].app_url = None
        /\ route[r2] = "search-document" /\ req[r2].app_url = None
        /\ pc[r1] = "rejected" /\ pc[r2] = "rejected"

----------------------------------------------------------------------------
(* C2 *)

\* C2: on every route, when the agent run returned a value with text R the
\* response is {success: true, result: R, error: null}; when a constructor
\* or the run raised an exception with message M the response is
\* {success: false, result: "", error: M}; success is true exactly when the
\* run returned, and error is null exactly when success is true.
C2_Envelope ==
    \A r \in Reqs :
        /\ (outcome[r] # NoOutcome /\ outcome[r].kind = "return")
           => /\ resp[r] # NoResponse
              /\ resp[r].success = TRUE
              /\ resp[r].result = outcome[r].value.text
              /\ resp[r].error = None
        /\ (outcome[r] # NoOutcome /\ outcome[r].kind # "return"
              /\ outcome[r].exc.cls \in {"Exception", "HTTPException"})
           => /\ resp[r] # NoResponse
              /\ resp[r].success = FALSE
              /\ resp[r].result = ""
              /\ resp[r].error = Some(outcome[r].exc.msg)
        /\ resp[r] # NoResponse
           => /\ resp[r].success <=> (outcome[r].kind = "return")
              /\ (resp[r].error = None) <=> resp[r].success

C2_Witness ==
    \E r1, r2 \in Reqs :
        /\ outcome[r1] # NoOutcome /\ outcome[r1].kind = "return"
        /\ outcome[r1].value.text = "done" /\ resp[r1].result = "done"
        /\ outcome[r2] # NoOutcome /\ outcome[r2].kind = "agent-raise"
        /\ resp[r2].success = FALSE /\ resp[r2].error = Some("boom")

----------------------------------------------------------------------------
(* C3 *)

\* C3: within one process the task_id of a response is
\* route_prefix + "_" + hash(input), the input being task on /browse and
\* /search-document and app_url on /scroll-app; so two responses on the
\* same route for the same input carry the same task_id, whatever the
\* outcome, headless and max_turns.
C3_TaskId ==
    /\ \A r \in Reqs :
         resp[r] # NoResponse
         => resp[r].task_id =
              RoutePrefix(route[r]) \o "_"
                \o ToString(hash[HashedInput(route[r], req[r])])
    /\ \A r1, r2 \in Reqs :
         (resp[r1] # NoResponse /\ resp[r2] # NoResponse
            /\ route[r1] = route[r2]
            /\ HashedInput(route[r1], req[r1]) = HashedInput(route[r2], req[r2]))
         => resp[r1].task_id = resp[r2].task_id

C3_Witness ==
    \E r1, r2 \in Reqs :
        /\ route[r1] = "browse" /\ route[r2] = "browse"
        /\ req[r1].task = "foo" /\ req[r2].task = "foo"
        /\ req[r1].headless # req[r2].headless
        /\ req[r1].max_turns # req[r2].max_turns
        /\ resp[r1] # NoResponse /\ resp[r2] # NoResponse
        /\ resp[r1].success /\ ~resp[r2].success
        /\ resp[r1].task_id = resp[r2].task_id

----------------------------------------------------------------------------
(* C4 *)

WellFormed(rs) ==
    /\ DOMAIN rs = {"success", "result", "error", "task_id"}
    /\ rs.success \in BOOLEAN
    /\ rs.error = None \/ (Len(rs.error) = 1 /\ Len(rs.error[1]) >= 0)
    /\ Len(rs.result) >= 0
    /\ Len(rs.task_id) > 0

\* The exception, if any, that ended request r's external calls.
RaisedIn(r) ==
    IF outcome[r] # NoOutcome /\ outcome[r].kind # "return"
    THEN {outcome[r].exc} ELSE {}

\* C4 as stated: every request whose agent run was started and has ended,
\* by a return, a failure or the cancellation of the awaiting handler, got
\* exactly one BrowserTaskResponse.
C4_AsStated ==
    \A r \in Reqs :
        (Did(r, "run") /\ Finished(r))
        => sent[r] = 1 /\ resp[r] # NoResponse /\ WellFormed(resp[r])

C4_Safety ==
    \A r \in Reqs :
        /\ sent[r] \in {0, 1}
        /\ (sent[r] = 1) <=> (pc[r] = "responded")
        /\ (resp[r] # NoResponse) <=> (pc[r] = "responded")
        /\ resp[r] # NoResponse => WellFormed(resp[r])
        /\ (pc[r] = "responded")
           <=> (outcome[r] # NoOutcome
                  /\ \A e \in RaisedIn(r) : e.cls \in {"Exception", "HTTPException"})
        /\ (pc[r] = "aborted") <=> (CancelledError \in RaisedIn(r))
        /\ (pc[r] = "rejected")
           <=> (Received(r) /\ route[r] # "browse"
                  /\ req[r].app_url \in {None, Some("")})

\* C4, amended: a request produces at most one BrowserTaskResponse, and a
\* response once produced is never replaced; it produces exactly one, with
\* all its fields, when its constructors or its agent run end by a return
\* or by raising an Exception; it produces none when it is rejected with
\* HTTP 400 or when the awaiting handler is cancelled (CancelledError is not
\* an Exception); and, the agent run eventually ending, an awaiting handler
\* eventually ends with a response or with the cancellation.
C4_ResponseOnce ==
    /\ []C4_Safety
    /\ [][\A r \in Reqs :
            /\ sent'[r] >= sent[r]
            /\ resp[r] # NoResponse => resp'[r] = resp[r]]_vars
    /\ \A r \in Reqs :
         (pc[r] = "awaiting") ~> (pc[r] \in {"responded", "aborted"})

C4_Witness ==
    \E r1, r2 \in Reqs :
        /\ pc[r1] = "aborted" /\ Did(r1, "run") /\ sent[r1] = 0
        /\ pc[r2] = "responded" /\ Did(r2, "run") /\ sent[r2] = 1
        /\ ~resp[r2].success

----------------------------------------------------------------------------
(* C5 *)

----------------------------------------------------------------------------
(* C6 *)

\* C6: every request for which an agent is constructed has a non-empty task
\* and a positive max_turns.
C6_ValidTaskRequest ==
    \A r \in Reqs :
        Did(r, "agent") => (req[r].task # "" /\ req[r].max_turns > 0)

----------------------------------------------------------------------------
(* C7 *)

\* C7: on /browse the task handed to the agent is the request's task,
\* character for character, whatever app_url, headless and max_turns are.
C7_BrowseVerbatim ==
    \A r \in Reqs :
        (route[r] = "browse" /\ HasAgent(r)) => agent[r].task = req[r].task

C7_Witness ==
    \E r1, r2 \in Reqs :
        /\ route[r1] = "browse" /\ route[r2] = "browse"
        /\ HasAgent(r1) /\ HasAgent(r2)
        /\ req[r1].task = "foo" /\ agent[r1].task = "foo"
        /\ req[r2].task = "foo" /\ agent[r2].task = "foo"
        /\ req[r1].app_url = None /\ req[r2].app_url = Some("http://a")
        /\ req[r1].headless # req[r2].headless
        /\ req[r1].max_turns # req[r2].max_turns

----------------------------------------------------------------------------
(* C8 *)

\* C8: on /scroll-app the prompt handed to the agent is the same for equal
\* app_url, whatever task, headless and max_turns are, and contains app_url;
\* on /search-document it is the same for equal (app_url, task) and
\* contains both.
C8_Prompts ==
    /\ \A r \in Reqs :
         (route[r] = "scroll-app" /\ HasAgent(r))
         => Contains(agent[r].task, req[r].app_url[1])
    /\ \A r \in Reqs :
         (route[r] = "search-document" /\ HasAgent(r))
         => /\ Contains(agent[r].task, req[r].app_url[1])
            /\ Contains(agent[r].task, req[r].task)
    /\ \A r1, r2 \in Reqs :
         (route[r1] = "scroll-app" /\ route[r2] = "scroll-app"
            /\ HasAgent(r1) /\ HasAgent(r2)
            /\ req[r1].app_url = req[r2].app_url)
         => agent[r1].task = agent[r2].task
    /\ \A r1, r2 \in Reqs :
         (route[r1] = "search-document" /\ route[r2] = "search-document"
            /\ HasAgent(r1) /\ HasAgent(r2)
            /\ req[r1].app_url = req[r2].app_url
            /\ req[r1].task = req[r2].task)
         => agent[r1].task = agent[r2].task

C8_Witness ==
    \E r1, r2 \in Reqs :
        /\ route[r1] = "scroll-app" /\ route[r2] = "scroll-app"
        /\ HasAgent(r1) /\ HasAgent(r2)
        /\ req[r1].app_url = Some("http://a") /\ req[r2].app_url = Some("http://a")
        /\ req[r1].task # req[r2].task
        /\ req[r1].headless # req[r2].headless
        /\ req[r1].max_turns # req[r2].max_turns
        /\ agent[r1].task = agent[r2].task

----------------------------------------------------------------------------
(* C9 *)

\* What request r's response must be, from r's own fields and outcome.
OwnResponse(r) ==
    BrowserTaskResponse(
        outcome[r].kind = "return",
        IF outcome[r].kind = "return" THEN outcome[r].value.text ELSE "",
        IF outcome[r].kind = "return" THEN None ELSE Some(outcome[r].exc.msg),
        RoutePrefix(route[r]) \o "_"
          \o ToString(hash[HashedInput(route[r], req[r])]))

C9_Own ==
    /\ \A r \in Reqs :
         /\ llm[r] # NoObject => llm[r].id = r
         /\ HasAgent(r) => agent[r].llm = llm[r]
         /\ resp[r] # NoResponse => resp[r] = OwnResponse(r)
    /\ \A r1, r2 \in Reqs :
         (r1 # r2 /\ llm[r1] # NoObject) => llm[r1] # llm[r2]

\* A step of one request leaves every other request as it was.
C9_Frame ==
    \E r \in Reqs :
        \A q \in Reqs \ {r} :
            /\ pc'[q] = pc[q] /\ route'[q] = route[q] /\ req'[q] = req[q]
            /\ llm'[q] = llm[q] /\ agent'[q] = agent[q]
            /\ outcome'[q] = outcome[q] /\ resp'[q] = resp[q]
            /\ status'[q] = status[q] /\ sent'[q] = sent[q]
            /\ steps'[q] = steps[q]

\* C9: with handlers interleaved at their awaits, each request uses the LLM
\* client and the agent it constructed itself, no step of one request
\* changes anything of another, and each response is determined by the
\* request's own fields and its own outcome.
C9_Isolation == []C9_Own /\ [][C9_Frame]_vars

C9_Witness ==
    \E r1, r2 \in Reqs :
        /\ r1 < r2
        /\ pc[r1] = "awaiting" /\ pc[r2] = "responded"
        /\ Did(r2, "run")
        /\ route[r1] # route[r2] /\ req[r1] # req[r2]

----------------------------------------------------------------------------
(* C10 *)

C10_Steps ==
    \A r \in Reqs :
        /\ HasAgent(r)
           => /\ agent[r].headless = req[r].headless
              /\ agent[r].max_turns = req[r].max_turns
        /\ \A i, j \in 1..Len(steps[r]) :
             i < j => StepOrder(steps[r][i]) < StepOrder(steps[r][j])
        /\ Did(r, "run") => Did(r, "agent")
        /\ Did(r, "agent") => Did(r, "llm")
        /\ (Received(r) /\ route[r] # "browse") => steps[r][1] = "validate"
        /\ Did(r, "respond") <=> resp[r] # NoResponse

\* C10: the handler constructs one agent with the request's headless and
\* max_turns, starts its run at most once, takes its steps in the order
\* validate, construct the LLM client, construct the agent, run, respond,
\* and takes no further step once it has ended (no retry, no second run).
C10_SingleRun ==
    /\ []C10_Steps
    /\ [][\A r \in Reqs : Finished(r) => steps'[r] = steps[r]]_vars

C10_Witness ==
    \E r \in Reqs :
        /\ Did(r, "run")
        /\ req[r].headless = FALSE /\ req[r].max_turns = 0
        /\ agent[r].headless = FALSE /\ agent[r].max_turns = 0
        /\ outcome[r] # NoOutcome /\ outcome[r].kind = "raise"
        /\ steps[r] = <<"validate", "llm", "agent", "run", "respond">>

====
